---- MODULE Spec2Model ----
(***************************************************************************)
(* A model of optimizers/functional/adamw.py: the function adamw, the      *)
(* optimizer state it reads and mutates, and a caller that invokes it      *)
(* repeatedly, either with state = None or with a state object returned by *)
(* an earlier call.                                                        *)
(*                                                                         *)
(* Numbers.  An array element is a pair <<n, d>>: the rational n/d in      *)
(* lowest terms with d > 0, or one of the three non-finite values numpy    *)
(* produces, written with d = 0: <<1,0>> = +inf, <<-1,0>> = -inf and       *)
(* <<0,0>> = nan.  +, -, *, / are exact on the finite values and follow    *)
(* IEEE-754 as numpy applies it (x/0 is +-inf or nan with a warning, not   *)
(* an exception).  sqrt is exact on squares of rationals and rounded down  *)
(* to a multiple of 1/SqrtScale otherwise.  Rounding of + - * / and the    *)
(* sign of zero are not modelled.                                          *)
(*                                                                         *)
(* Arrays.  An array is a non-empty sequence of numbers (one axis); its    *)
(* shape is its length.  Binary operations broadcast as numpy does: the    *)
(* shapes must be equal or one of them 1, else ValueError.  A Python       *)
(* scalar is the array of shape 1.                                         *)
(***************************************************************************)
EXTENDS Integers, Sequences, FiniteSets, TLC

VARIABLES heap, pre, call, out, ncalls

vars == <<heap, pre, call, out, ncalls>>

-----------------------------------------------------------------------------
(* Bounds of the model *)

MaxCalls == 2
MaxParams == 2
MaxDim == 3
SqrtScale == 100

-----------------------------------------------------------------------------
(* Floating-point values *)

Abs(x) == IF x < 0 THEN -x ELSE x

RECURSIVE Gcd(_, _)
Gcd(a, b) == IF b = 0 THEN a ELSE Gcd(b, a % b)

\* The element of a one-element set.  Only({e(x) : x \in {v}}) is e(v) with
\* v evaluated once.
Only(S) == CHOOSE x \in S : TRUE

Lowest(n, d) == Only({<<n \div g, d \div g>> : g \in {Gcd(Abs(n), d)}})

\* n/d in lowest terms, d # 0
Q(n, d) ==
    Only({IF b < 0 THEN Lowest(-a, -b) ELSE Lowest(a, b) : a \in {n}, b \in {d}})

NaN == <<0, 0>>
PosInf == <<1, 0>>
NegInf == <<-1, 0>>
Zero == <<0, 1>>
One == <<1, 1>>

IsNaN(x) == x = NaN
IsInf(x) == x[2] = 0 /\ x[1] # 0
IsFinite(x) == x[2] # 0
Sgn(x) == IF x[1] > 0 THEN 1 ELSE IF x[1] < 0 THEN -1 ELSE 0

fneg(x) == <<-x[1], x[2]>>

fadd(x, y) ==
    IF IsNaN(x) \/ IsNaN(y) THEN NaN
    ELSE IF IsInf(x) THEN (IF IsInf(y) /\ y # x THEN NaN ELSE x)
    ELSE IF IsInf(y) THEN y
    ELSE Q(x[1] * y[2] + y[1] * x[2], x[2] * y[2])

fsub(x, y) == fadd(x, fneg(y))

fmul(x, y) ==
    IF IsNaN(x) \/ IsNaN(y) THEN NaN
    ELSE IF IsInf(x) \/ IsInf(y) THEN <<Sgn(x) * Sgn(y), 0>>
    ELSE Q(x[1] * y[1], x[2] * y[2])

fdiv(x, y) ==
    IF IsNaN(x) \/ IsNaN(y) THEN NaN
    ELSE IF IsInf(x)
         THEN (IF IsInf(y) THEN NaN
               ELSE <<Sgn(x) * (IF Sgn(y) < 0 THEN -1 ELSE 1), 0>>)
    ELSE IF IsInf(y) THEN Zero
    ELSE IF y[1] = 0 THEN <<Sgn(x), 0>>
    ELSE Q(x[1] * y[2], x[2] * y[1])

RECURSIVE ISqrtIn(_, _, _)
ISqrtIn(k, lo, hi) ==
    IF lo >= hi THEN lo
    ELSE LET mid == (lo + hi + 1) \div 2
         IN  IF mid * mid <= k THEN ISqrtIn(k, mid, hi)
             ELSE ISqrtIn(k, lo, mid - 1)

\* floor of the square root of the natural number k
ISqrt(k) == ISqrtIn(k, 0, IF k < 46340 THEN k ELSE 46340)

\* floor of (n / d) * SqrtScale^2, without an intermediate product beyond
\* d * SqrtScale
ScaledFloor(n, d) ==
    LET q == n \div d
        r == n % d
        a == (r * SqrtScale) \div d
        b == (r * SqrtScale) % d
    IN  q * SqrtScale * SqrtScale + a * SqrtScale + (b * SqrtScale) \div d

fsqrt(x) ==
    IF IsNaN(x) THEN NaN
    ELSE IF IsInf(x) THEN (IF x = PosInf THEN PosInf ELSE NaN)
    ELSE IF x[1] < 0 THEN NaN
    ELSE LET a == ISqrt(x[1])
             b == ISqrt(x[2])
         IN  IF a * a = x[1] /\ b * b = x[2] THEN Q(a, b)
             ELSE Q(ISqrt(ScaledFloor(x[1], x[2])), SqrtScale)

RECURSIVE IPow(_, _)
IPow(b, e) == IF e = 0 THEN 1 ELSE b * IPow(b, e - 1)

\* Python's float ** int raises ZeroDivisionError for 0.0 ** negative
PowRaises(b, e) == b[1] = 0 /\ e < 0

fpow(b, e) ==
    IF e >= 0 THEN Q(IPow(b[1], e), IPow(b[2], e))
    ELSE Q(IPow(b[2], -e), IPow(b[1], -e))

-----------------------------------------------------------------------------
(* Arrays and broadcasting *)

Shape(A) == Len(A)
Compat(a, b) == a = b \/ a = 1 \/ b = 1
BShape(a, b) == IF a = 1 THEN b ELSE a
At(A, k) == IF Len(A) = 1 THEN A[1] ELSE A[k]

\* the index set of the broadcast of a and b
BRange(a, b) == 1..BShape(Len(a), Len(b))

aadd(A, B) ==
    Only({[k \in BRange(a, b) |-> fadd(At(a, k), At(b, k))] :
            a \in {A}, b \in {B}})
asub(A, B) ==
    Only({[k \in BRange(a, b) |-> fsub(At(a, k), At(b, k))] :
            a \in {A}, b \in {B}})
amul(A, B) ==
    Only({[k \in BRange(a, b) |-> fmul(At(a, k), At(b, k))] :
            a \in {A}, b \in {B}})
adiv(A, B) ==
    Only({[k \in BRange(a, b) |-> fdiv(At(a, k), At(b, k))] :
            a \in {A}, b \in {B}})
asqrt(A) == [k \in 1..Len(A) |-> fsqrt(A[k])]
Scalar(x) == <<x>>
zeros_like(p) == [k \in 1..Len(p) |-> Zero]

-----------------------------------------------------------------------------
(* adamw: the loop body, lines 50-62 *)

None == 0

\* line 50: beta1 * m[i] + (1 - beta1) * grad
first_moment(m_i, grad, beta1) ==
    aadd(amul(Scalar(beta1), m_i), amul(Scalar(fsub(One, beta1)), grad))

\* line 51: beta2 * v[i] + (1 - beta2) * (grad ** 2)
second_moment(v_i, grad, beta2) ==
    aadd(amul(Scalar(beta2), v_i),
         amul(Scalar(fsub(One, beta2)), amul(grad, grad)))

\* mutant: the moments used without bias correction
bias_uncorrected(x, beta, t) == x

\* lines 53, 54: x / (1 - beta**t)
bias_corrected(x, beta, t) ==
    adiv(x, Scalar(fsub(One, fpow(beta, t))))

\* mutant: epsilon left out of the denominator
adaptive_term_noeps(m_hat, v_hat, h) ==
    adiv(amul(Scalar(h.learning_rate), m_hat), asqrt(v_hat))

\* line 57: learning_rate * m_hat / (np.sqrt(v_hat) + epsilon)
adaptive_term(m_hat, v_hat, h) ==
    adiv(amul(Scalar(h.learning_rate), m_hat),
         aadd(asqrt(v_hat), Scalar(h.epsilon)))

\* line 58: learning_rate * weight_decay * param
decay_term(param, h) ==
    amul(Scalar(fmul(h.learning_rate, h.weight_decay)), param)

\* lines 56-59
param_update(m_hat, v_hat, param, h) ==
    aadd(adaptive_term(m_hat, v_hat, h), decay_term(param, h))

Raise(L, e) == [L EXCEPT !.exc = e]

\* line 62: updated_params.append(updated_param)
ListAppend(L, x) ==
    [L EXCEPT !.lists[L.updated_params] = Append(@, x)]

\* mutant: every index reads the first moment of index 0
UpdateM_shared(L, i, h) ==
    LET grad == L.lists["grads"][i]
    IN  IF i > Len(L.m) THEN Raise(L, "IndexError")
        ELSE IF ~Compat(Shape(L.m[1]), Shape(grad)) THEN Raise(L, "ValueError")
        ELSE [L EXCEPT !.m[i] = first_moment(L.m[1], grad, h.beta1)]

\* line 50.  m[i] raises IndexError past the end of m; the sum raises
\* ValueError when the shapes of m[i] and grad do not broadcast.
UpdateM(L, i, h) ==
    LET grad == L.lists["grads"][i]
    IN  IF i > Len(L.m) THEN Raise(L, "IndexError")
        ELSE IF ~Compat(Shape(L.m[i]), Shape(grad)) THEN Raise(L, "ValueError")
        ELSE [L EXCEPT !.m[i] = first_moment(@, grad, h.beta1)]

\* line 51, likewise for v
UpdateV(L, i, h) ==
    LET grad == L.lists["grads"][i]
    IN  IF i > Len(L.v) THEN Raise(L, "IndexError")
        ELSE IF ~Compat(Shape(L.v[i]), Shape(grad)) THEN Raise(L, "ValueError")
        ELSE [L EXCEPT !.v[i] = second_moment(@, grad, h.beta2)]

\* mutant: the update reduced to its first element
UpdatedParam_first(m_hat, v_hat, param, h) ==
    SubSeq(asub(param, param_update(m_hat, v_hat, param, h)), 1, 1)

\* lines 56-60, given m_hat and v_hat
UpdatedParam(m_hat, v_hat, param, h) ==
    asub(param, param_update(m_hat, v_hat, param, h))

\* lines 53-62
UpdateParam(L, i, h) ==
    LET param == L.lists["params"][i]
    IN  IF PowRaises(h.beta1, h.t) \/ PowRaises(h.beta2, h.t)
        THEN Raise(L, "ZeroDivisionError")
        ELSE Only({IF \/ ~Compat(Shape(m_hat), Shape(v_hat))
                      \/ ~Compat(BShape(Shape(m_hat), Shape(v_hat)),
                                 Shape(param))
                   THEN Raise(L, "ValueError")
                   ELSE ListAppend(L, UpdatedParam(m_hat, v_hat, param, h)) :
                     m_hat \in {bias_corrected(L.m[i], h.beta1, h.t)},
                     v_hat \in {bias_corrected(L.v[i], h.beta2, h.t)}})

\* One iteration of the loop, for index i (1-based here, i - 1 in the source).
\* It stops at the first operation that raises, keeping what was assigned
\* before it.
LoopBody(L, i, h) ==
    Only({IF L1.exc # "none" THEN L1
          ELSE Only({IF L2.exc # "none" THEN L2 ELSE UpdateParam(L2, i, h) :
                       L2 \in {UpdateV(L1, i, h)}}) :
            L1 \in {UpdateM(L, i, h)}})

Min(a, b) == IF a < b THEN a ELSE b

\* line 49: for i, (param, grad) in enumerate(zip(params, grads))
RECURSIVE Loop(_, _, _, _)
Loop(L, i, n, h) ==
    IF i > n \/ L.exc # "none" THEN L
    ELSE Only({Loop(L1, i + 1, n, h) : L1 \in {LoopBody(L, i, h)}})

\* mutant: the new state has no entries
NewState_empty(params) == [m |-> <<>>, v |-> <<>>]

\* mutant: the new state has one scalar entry whatever the parameters
NewState_one(params) == [m |-> <<zeros_like(<<One>>)>>, v |-> <<zeros_like(<<One>>)>>]

\* lines 39-43: the state built when the caller passes None
NewState(params) ==
    [m |-> [i \in 1..Len(params) |-> zeros_like(params[i])],
     v |-> [i \in 1..Len(params) |-> zeros_like(params[i])]]

\* line 48: updated_params = [] binds the name to a new list object
NewList == "new"

\* lines 45-48: the names the loop works on.  m and v are the lists of the
\* state object; params and grads are the caller's lists; updated_params is
\* bound to a list of its own.
Frame(st, params, grads) ==
    [m |-> st.m, v |-> st.v,
     lists |-> [params |-> params, grads |-> grads, new |-> <<>>],
     updated_params |-> NewList,
     exc |-> "none"]

\* mutant: the moments go into a new state object, the one passed is left
\* as it was
WriteBack_copy(H0, ref, L) == Append(H0, [m |-> L.m, v |-> L.v])

\* lines 50, 51, 64, 65: m[i] = ... and v[i] = ... assign into the lists of
\* the state object itself, so the object the caller holds has the new
\* moments
WriteBack(H0, ref, L) == [H0 EXCEPT ![ref] = [m |-> L.m, v |-> L.v]]

\* The whole call.  H is the caller's heap of state objects (a state
\* object's reference is its index in H, None is 0).  The result gives the
\* heap after the call, the state the loop started from, and what the
\* caller gets back: a return value or an exception.  A state object built
\* for state = None is reachable by the caller only if the call returns.
adamw(params, grads, h, state, H) ==
    LET fresh == state = None
        ref == IF fresh THEN Len(H) + 1 ELSE state
        H0 == IF fresh THEN Append(H, NewState(params)) ELSE H
    IN  Only({[heap |-> IF fresh /\ L.exc # "none" THEN H
                        ELSE WriteBack(H0, ref, L),
               kind |-> IF L.exc = "none" THEN "return" ELSE L.exc,
               entry |-> H0[ref],
               state |-> IF L.exc = "none" THEN ref ELSE None,
               updated_ref |->
                   IF L.exc = "none" THEN L.updated_params ELSE "none",
               updated_params |->
                   IF L.exc = "none" THEN L.lists[L.updated_params] ELSE <<>>,
               params |-> L.lists["params"],
               grads |-> L.lists["grads"]] :
                 L \in {Loop(Frame(H0[ref], params, grads), 1,
                              Min(Len(params), Len(grads)), h)}})

-----------------------------------------------------------------------------
(* The caller's inputs *)

Hyper(lr, b1, b2, eps, t, wd) ==
    [learning_rate |-> lr, beta1 |-> b1, beta2 |-> b2, epsilon |-> eps,
     t |-> t, weight_decay |-> wd]

BaseHyper == Hyper(Q(1, 10), Q(1, 2), Q(1, 2), Q(1, 100), 1, Q(1, 10))

\* the contract's domain of the hyperparameters (spec section 7)
ValidHyper(h) ==
    /\ h.t >= 1
    /\ IsFinite(h.beta1) /\ Sgn(h.beta1) > 0 /\ h.beta1[1] < h.beta1[2]
    /\ IsFinite(h.beta2) /\ Sgn(h.beta2) > 0 /\ h.beta2[1] < h.beta2[2]
    /\ IsFinite(h.epsilon) /\ Sgn(h.epsilon) > 0
    /\ IsFinite(h.learning_rate) /\ Sgn(h.learning_rate) >= 0
    /\ IsFinite(h.weight_decay) /\ Sgn(h.weight_decay) >= 0

\* settings inside the contract's domain, for step number t
ValidHypers(t) ==
    {Hyper(Q(1, 10), b[1], b[2], Q(1, 100), t, wd) :
        b \in {<<Q(1, 2), Q(1, 2)>>, <<Q(9, 10), Q(3, 4)>>},
        wd \in {Zero, Q(1, 10)}}

\* settings outside it, each with one field out of its domain (two in the
\* last, where Python's ** raises)
InvalidHypers ==
    {[BaseHyper EXCEPT !.t = t] : t \in {0, -1}}
    \cup {[BaseHyper EXCEPT !.beta1 = b] : b \in {Zero, One, Q(3, 2), Q(-1, 2)}}
    \cup {[BaseHyper EXCEPT !.beta2 = b] : b \in {Zero, One, Q(3, 2), Q(-1, 2)}}
    \cup {[BaseHyper EXCEPT !.epsilon = e] : e \in {Zero, Q(-1, 100)}}
    \cup {[BaseHyper EXCEPT !.learning_rate = Q(-1, 10)]}
    \cup {[BaseHyper EXCEPT !.weight_decay = Q(-1, 10)]}
    \cup {[BaseHyper EXCEPT !.beta1 = Zero, !.t = -1]}

\* shapes of a list of n arrays: index i has shape ((i - 1 + s) % MaxDim) + 1
ShapesOf(n, s) == [i \in 1..n |-> ((i - 1 + s) % MaxDim) + 1]

ShapeLists == {ShapesOf(n, s) : n \in 0..MaxParams, s \in {0, 1}}

\* parameters of the given shapes: element k of array i is i + k - 1
ParamList(sh) ==
    [i \in 1..Len(sh) |-> [k \in 1..sh[i] |-> Q(i + k - 1, 1)]]

\* gradients of the given shapes: element k of array i is g * (i + k - 1)
GradList(sh, g) ==
    [i \in 1..Len(sh) |-> [k \in 1..sh[i] |-> Q(g * (i + k - 1), 1)]]

GradScales == {0, 1, -1}

Input(params, grads, h) == [params |-> params, grads |-> grads, h |-> h]

\* every list of matching shapes, zero and non-zero gradients, base
\* hyperparameters
ListInputs(t) ==
    {Input(ParamList(sh), GradList(sh, g), [BaseHyper EXCEPT !.t = t]) :
        sh \in ShapeLists, g \in {0, 1}}

\* one scalar parameter, every hyperparameter setting
HyperInputs(t) ==
    {Input(ParamList(<<1>>), GradList(<<1>>, g), h) :
        g \in GradScales, h \in ValidHypers(t)}
    \cup {Input(ParamList(<<1>>), GradList(<<1>>, 1), h) : h \in InvalidHypers}

\* what the caller may pass on its call number t, with or without a state
Inputs == [t \in 1..MaxCalls |-> ListInputs(t) \cup HyperInputs(t)]

\* params and grads whose lengths or shapes disagree, passed with
\* state = None (a state disagrees with the lists when a list of Inputs is
\* passed with the state of a call on another list)
MismatchInputs ==
    [t \in 1..MaxCalls |->
        {Input(ParamList(sp), GradList(sg, 1), [BaseHyper EXCEPT !.t = t]) :
            sp \in {ShapesOf(n, 0) : n \in 0..MaxParams}, sg \in ShapeLists}]

\* the default decay rates 0.9 and 0.999 (lines 13, 14) on one scalar
\* parameter, passed with state = None only
DefaultBetaInputs ==
    {Input(ParamList(<<1>>), GradList(<<1>>, g),
           Hyper(Q(1, 10), Q(9, 10), Q(999, 1000), Q(1, 100), 1, wd)) :
        g \in GradScales, wd \in {Zero, Q(1, 10)}}

-----------------------------------------------------------------------------
(* The state machine: a caller that calls adamw up to MaxCalls times *)

NoCall == [params |-> <<>>, grads |-> <<>>, h |-> BaseHyper, state |-> None]

NoOut ==
    [kind |-> "none", entry |-> NewState(<<>>),
     state |-> None, updated_ref |-> "none", updated_params |-> <<>>,
     params |-> <<>>, grads |-> <<>>]

Init ==
    /\ heap = <<>>
    /\ pre = <<>>
    /\ call = NoCall
    /\ out = NoOut
    /\ ncalls = 0

\* lists and arrays as the contract requires them (spec section 3): as many
\* gradients and moments as parameters, each shaped like its parameter
SameShapes(xs, ys) ==
    /\ Len(xs) = Len(ys)
    /\ \A i \in 1..Len(xs) : Shape(xs[i]) = Shape(ys[i])

ValidShapes(params, grads, st) ==
    /\ SameShapes(grads, params)
    /\ SameShapes(st.m, params)
    /\ SameShapes(st.v, params)

\* the last call was inside the contract: out.entry is the state it started
\* from (the one passed, or the one built for None)
ValidCall ==
    /\ out.kind # "none"
    /\ ValidHyper(call.h)
    /\ ValidShapes(call.params, call.grads, out.entry)

CallAdamw(inp, state) ==
    /\ out.kind = "none" \/ (out.kind = "return" /\ ValidCall)
    /\ \E H \in {heap} :
        \E r \in {adamw(inp.params, inp.grads, inp.h, state, H)} :
           /\ heap' = r.heap
           /\ out' = [kind |-> r.kind, entry |-> r.entry,
                      state |-> r.state, updated_ref |-> r.updated_ref,
                      updated_params |-> r.updated_params,
                      params |-> r.params, grads |-> r.grads]
    /\ pre' = heap
    /\ call' = [params |-> inp.params, grads |-> inp.grads, h |-> inp.h,
                state |-> state]
    /\ ncalls' = ncalls + 1

\* The caller passes the step number t = 1, 2, ... of its call, and either
\* None or the state its last call returned.  An exception ends its run, and
\* so does a call outside the contract: what such a call does is judged on
\* the state it leaves.
Next ==
    /\ ncalls < MaxCalls
    /\ \/ \E inp \in Inputs[ncalls + 1], state \in {None, out.state} :
             CallAdamw(inp, state)
       \/ \E inp \in MismatchInputs[ncalls + 1] \cup DefaultBetaInputs :
             CallAdamw(inp, None)

Spec == Init /\ [][Next]_vars

-----------------------------------------------------------------------------
(* What the claims are stated with *)

Called == out.kind # "none"
Returned == out.kind = "return"
Raised == out.kind \in {"IndexError", "ValueError", "ZeroDivisionError"}

AllZero(xs) == \A i \in 1..Len(xs) : \A k \in 1..Len(xs[i]) : xs[i][k] = Zero

fabs(x) == <<Abs(x[1]), x[2]>>

\* the call's inputs disagree in length or in per-index shape
Mismatched == Called /\ ~ValidShapes(call.params, call.grads, out.entry)

\* C1: a call whose params, grads, m and v disagree in length or per-index
\* shape is rejected before any mutation: it raises, the heap of state
\* objects is what it was before the call, and no updated_params come back.
C1_MismatchRejected ==
    Mismatched =>
        /\ Raised
        /\ heap = pre
        /\ out.updated_params = <<>>

\* C2: a call with t < 1 ends in an error; it never returns a result computed
\* with the bias-correction denominators of t = 0, and no state is mutated.
C2_InvalidTRejected ==
    (Called /\ call.h.t < 1) =>
        /\ Raised
        /\ heap = pre
        /\ out.updated_params = <<>>

InUnit(b) == IsFinite(b) /\ Sgn(b) > 0 /\ b[1] < b[2]

\* C3: a call with beta1 or beta2 outside (0,1), epsilon <= 0,
\* learning_rate < 0 or weight_decay < 0 fails before any mutation: it
\* raises, m and v are unchanged and no updated parameters come back.
C3_InvalidHyperRejected ==
    (/\ Called
     /\ \/ ~InUnit(call.h.beta1)
        \/ ~InUnit(call.h.beta2)
        \/ Sgn(call.h.epsilon) <= 0
        \/ Sgn(call.h.learning_rate) < 0
        \/ Sgn(call.h.weight_decay) < 0) =>
        /\ Raised
        /\ heap = pre
        /\ out.updated_params = <<>>

\* the state object the last call started from, when one was passed
Passed == Called /\ call.state # None

\* every state object the caller held before the call is as it was
OthersUntouched(ref) ==
    \A r \in 1..Len(pre) : r # ref => heap[r] = pre[r]

\* C4: a call with state = None starts from all-zero m and v with one entry
\* per parameter, each shaped like its parameter, in a state object that is
\* new: its reference is none the caller held, and the state objects of
\* earlier calls are left as they were.
C4_FreshZeroState ==
    (Called /\ call.state = None) =>
        /\ Len(out.entry.m) = Len(call.params)
        /\ Len(out.entry.v) = Len(call.params)
        /\ \A i \in 1..Len(call.params) :
              /\ Shape(out.entry.m[i]) = Shape(call.params[i])
              /\ Shape(out.entry.v[i]) = Shape(call.params[i])
        /\ AllZero(out.entry.m) /\ AllZero(out.entry.v)
        /\ Returned => (out.state \notin 1..Len(pre) /\ out.state \in 1..Len(heap))
        /\ OthersUntouched(None)

\* two calls with None, the second with another parameter list, both having
\* moved their own moments
C4_Witness ==
    /\ ncalls = 2 /\ Returned /\ call.state = None
    /\ Len(pre) = 1 /\ Len(heap) = 2
    /\ Len(call.params) = 2 /\ Len(pre[1].m) = 1
    /\ ~AllZero(heap[1].m) /\ ~AllZero(heap[2].m)

\* C5: a valid call that is passed a state returns that very object, with
\* its moments updated in place index by index; no other state object
\* changes and none is created; params and grads are left as they were and
\* updated_params is a list of its own.
C5_StateMutatedInPlace ==
    (ValidCall /\ Returned) =>
        /\ out.params = call.params
        /\ out.grads = call.grads
        /\ out.updated_ref \notin {"params", "grads"}
        /\ Passed =>
              /\ out.state = call.state
              /\ Len(heap) = Len(pre)
              /\ OthersUntouched(call.state)
              /\ \A i \in 1..Len(call.params) :
                    /\ heap[call.state].m[i] =
                         first_moment(pre[call.state].m[i], call.grads[i],
                                      call.h.beta1)
                    /\ heap[call.state].v[i] =
                         second_moment(pre[call.state].v[i], call.grads[i],
                                       call.h.beta2)

C5_Witness ==
    /\ ValidCall /\ Returned /\ Passed
    /\ Len(call.params) = 2
    /\ heap[call.state] # pre[call.state]
    /\ ~AllZero(pre[call.state].m)

\* C6: a valid call returns one updated parameter per parameter, each with
\* the shape of its parameter, and the returned state still has one m and
\* one v per parameter, each shaped like its parameter.
C6_ShapesPreserved ==
    (ValidCall /\ Returned) =>
        /\ SameShapes(out.updated_params, call.params)
        /\ SameShapes(heap[out.state].m, call.params)
        /\ SameShapes(heap[out.state].v, call.params)

\* the second of two threaded calls, on arrays of shapes 2 and 3
C6_Witness ==
    /\ ValidCall /\ Returned /\ Passed /\ ncalls = 2
    /\ Len(out.updated_params) = 2
    /\ Shape(out.updated_params[1]) = 2
    /\ Shape(out.updated_params[2]) = 3

\* param - learning_rate * weight_decay * param, elementwise
PureDecay(param, h) ==
    [k \in 1..Len(param) |->
        fsub(param[k], fmul(fmul(h.learning_rate, h.weight_decay), param[k]))]

\* C7: with every gradient zero and the moments zero, a step leaves m and v
\* all zero and yields param - learning_rate * weight_decay * param; the
\* state it returns is again all zero, so this holds step after step.
C7_ZeroGradientDecay ==
    (ValidCall /\ AllZero(call.grads)
        /\ AllZero(out.entry.m) /\ AllZero(out.entry.v)) =>
        /\ Returned
        /\ AllZero(heap[out.state].m) /\ AllZero(heap[out.state].v)
        /\ Len(out.updated_params) = Len(call.params)
        /\ \A i \in 1..Len(call.params) :
              out.updated_params[i] = PureDecay(call.params[i], call.h)

\* the second step, t = 2, on the state the first returned, with decay
C7_Witness ==
    /\ ValidCall /\ Passed /\ ncalls = 2 /\ call.h.t = 2
    /\ AllZero(call.grads) /\ AllZero(out.entry.m) /\ AllZero(out.entry.v)
    /\ Len(call.params) = 2
    /\ call.h.weight_decay # Zero
    /\ out.updated_params[2] # call.params[2]

\* C8: a call with params = [] and grads = [] raises nothing and returns an
\* empty updated_params; a state that was passed comes back as it was, and
\* for None the returned state has empty m and v.
C8_EmptyInput ==
    (Called /\ call.params = <<>> /\ call.grads = <<>>) =>
        /\ Returned
        /\ out.updated_params = <<>>
        /\ OthersUntouched(None)
        /\ Passed => (out.state = call.state /\ heap = pre)
        /\ ~Passed => (/\ heap[out.state].m = <<>>
                       /\ heap[out.state].v = <<>>
                       /\ Len(heap) = Len(pre) + 1)

\* an empty call on a state that holds moments
C8_Witness ==
    /\ Called /\ call.params = <<>> /\ call.grads = <<>>
    /\ Passed /\ Returned
    /\ Len(heap[call.state].m) = 2
    /\ ~AllZero(heap[call.state].m)

\* C9: on a first step, t = 1, from all-zero moments, m becomes
\* (1 - beta1) * grad and v becomes (1 - beta2) * grad^2, so that the bias
\* correction gives m_hat = grad and v_hat = grad^2; with weight_decay = 0
\* the updated parameter is param - learning_rate * grad / (|grad| + epsilon).
C9_BiasCorrectionFirstStep ==
    (ValidCall /\ call.h.t = 1
        /\ AllZero(out.entry.m) /\ AllZero(out.entry.v)) =>
        /\ Returned
        /\ \A i \in 1..Len(call.params) : \A k \in 1..Len(call.params[i]) :
              LET g == call.grads[i][k]
                  p == call.params[i][k]
                  m1 == heap[out.state].m[i][k]
                  v1 == heap[out.state].v[i][k]
                  h == call.h
              IN  /\ m1 = fmul(fsub(One, h.beta1), g)
                  /\ v1 = fmul(fsub(One, h.beta2), fmul(g, g))
                  /\ fdiv(m1, fsub(One, h.beta1)) = g
                  /\ fdiv(v1, fsub(One, h.beta2)) = fmul(g, g)
                  /\ h.weight_decay = Zero =>
                        out.updated_params[i][k] =
                            fsub(p, fdiv(fmul(h.learning_rate, g),
                                         fadd(fabs(g), h.epsilon)))

\* beta1 = 0.9, beta2 = 0.999, p = 1, grad = 1, learning_rate = 0.1,
\* weight_decay = 0, epsilon = 0.01: m = 0.1, v = 0.001 and
\* updated_param = 1 - 0.1 / 1.01 = 91/101
C9_Witness ==
    /\ ValidCall /\ call.h.t = 1 /\ call.state = None
    /\ call.h.beta1 = <<9, 10>> /\ call.h.beta2 = <<999, 1000>>
    /\ call.params = <<<<One>>>> /\ call.grads = <<<<One>>>>
    /\ heap[out.state].m = <<<<(<<1, 10>>)>>>>
    /\ heap[out.state].v = <<<<(<<1, 1000>>)>>>>
    /\ out.updated_params = <<<<(<<91, 101>>)>>>>

\* the array with 1 added to every element
Bump(A) == [k \in 1..Len(A) |-> fadd(A[k], One)]

BumpAt(xs, j) == [i \in 1..Len(xs) |-> IF i = j THEN Bump(xs[i]) ELSE xs[i]]

\* the last call's frame, and the same with every entry of index j changed
CallFrame == Frame(out.entry, call.params, call.grads)

OtherFrame(j) ==
    Frame([m |-> BumpAt(out.entry.m, j), v |-> BumpAt(out.entry.v, j)],
          BumpAt(call.params, j), BumpAt(call.grads, j))

\* C10: in a call that returns, what index i gets (m[i], v[i] and
\* updated_params[i]) is what the loop body gives for i alone from the
\* state at entry, whatever the order of the other indices, and the body
\* for i writes no m[j] or v[j], j # i; with the parameter, gradient and
\* moments of another index j changed, index i gets the same.
C10_IndexIndependence ==
    Returned =>
      \E F \in {CallFrame}, h \in {call.h}, st \in {heap[out.state]} :
        /\ \A i \in 1..Len(out.updated_params) :
              \E Li \in {LoopBody(F, i, h)} :
                  /\ Li.exc = "none"
                  /\ Li.m[i] = st.m[i]
                  /\ Li.v[i] = st.v[i]
                  /\ Li.lists["new"] = <<out.updated_params[i]>>
                  /\ \A j \in 1..Len(F.m) : j # i =>
                        (Li.m[j] = F.m[j] /\ Li.v[j] = F.v[j])
                  /\ Li.lists["params"] = call.params
                  /\ Li.lists["grads"] = call.grads
        /\ \A j \in 1..Len(out.updated_params) :
              \E Fj \in {OtherFrame(j)} :
              \E Lj \in {Loop(Fj, 1, Len(out.updated_params), h)} :
                  /\ Lj.exc = "none"
                  /\ \A i \in 1..Len(out.updated_params) : i # j =>
                        /\ Lj.m[i] = st.m[i]
                        /\ Lj.v[i] = st.v[i]
                        /\ Lj.lists["new"][i] = out.updated_params[i]

\* a threaded call on two parameters with non-zero gradients and moments
C10_Witness ==
    /\ Returned /\ Passed
    /\ Len(out.updated_params) = 2
    /\ ~AllZero(out.entry.m)
    /\ \A i \in 1..2 : heap[out.state].m[i] # out.entry.m[i]

====
